---- MODULE Spec2Model ----
(***************************************************************************)
(* A model of analyser.py: the hex-text line edit (InputEdit), the 32-bit  *)
(* word view (Reg32View with its 32 BitView buttons), the decoded field    *)
(* table (FieldsView) and the wiring between them (AnalyserUi).            *)
(*                                                                         *)
(* Text is a sequence of one-character strings.  A bitarray is a sequence  *)
(* of 0/1.  A Python int is an arbitrary-precision natural: it is held as  *)
(* its binary numeral, most-significant bit first, without leading zeros   *)
(* (zero is the empty numeral), so that int() drops leading zero digits    *)
(* and zfill()/format() have to put them back, as in the code.             *)
(*                                                                         *)
(* An exception that leaves a handler ends the program (PyQt5 aborts on an *)
(* unhandled exception in a slot or an event handler): pc = "aborted",     *)
(* with err the exception and the state as it was when it was raised.      *)
(***************************************************************************)
EXTENDS Integers, Sequences, FiniteSets, TLC

VARIABLES
    text,        \* InputEdit.text()
    selStart,    \* InputEdit selection: [selStart, selEnd), 0,0 when none
    selEnd,
    cursor,      \* InputEdit.cursorPosition()
    dword,       \* Reg32View.dword
    reg32bits,   \* Reg32View.reg32bits
    bitviews,    \* Reg32View.reg32bitviews[i].value, i in 0..31
    template,    \* the field list handed to FieldsView.parse
    rows,        \* FieldsView.model rows
    fvbits,      \* FieldsView.bitarray
    hexout,      \* the last serialisation bitarray.tobytes().hex().upper()
    pc,          \* where the program is: "running" | "aborted", or the stage of a function
    err,         \* the exception that ended the last handler, or "none"
    lastOp,      \* history: the last event handled
    prevText,    \* history: text before the last event
    steps,       \* history: number of events handled
    signal,      \* history: the last signal the last event emitted, with its arguments
    fnIn,        \* the argument a function is applied to (SpecFunctions)
    fnOut        \* what the function returned (SpecFunctions)

vars == <<text, selStart, selEnd, cursor, dword, reg32bits, bitviews, template,
          rows, fvbits, hexout, pc, err, lastOp, prevText, steps, signal, fnIn, fnOut>>

(***************************************************************************)
(* Bounds of the model.                                                    *)
(***************************************************************************)
MaxSteps == 3
MaxHexLen == 2
MaxOffset == 9
MaxTextLen == 32
MaxCfgLen == 3
MaxSections == 2
MaxValueBits == 3

(***************************************************************************)
(* Characters and Python's conversions.                                    *)
(***************************************************************************)
HexUpperDigits ==
    <<"0", "1", "2", "3", "4", "5", "6", "7", "8", "9", "A", "B", "C", "D", "E", "F">>

HexLowerDigits ==
    <<"0", "1", "2", "3", "4", "5", "6", "7", "8", "9", "a", "b", "c", "d", "e", "f">>

\* the characters QRegExpValidator("[0-9A-Fa-f]*") lets into the line edit
HexChars == {HexUpperDigits[i] : i \in 1..16} \cup {HexLowerDigits[i] : i \in 1..16}

\* the value int(c, 16) gives one hex digit, either case
HexDigitValue(c) ==
    CASE c = "0" -> 0 [] c = "1" -> 1 [] c = "2" -> 2 [] c = "3" -> 3
      [] c = "4" -> 4 [] c = "5" -> 5 [] c = "6" -> 6 [] c = "7" -> 7
      [] c = "8" -> 8 [] c = "9" -> 9
      [] c \in {"A", "a"} -> 10 [] c \in {"B", "b"} -> 11 [] c \in {"C", "c"} -> 12
      [] c \in {"D", "d"} -> 13 [] c \in {"E", "e"} -> 14 [] c \in {"F", "f"} -> 15

\* str.upper() on a string of hex digits and 'x'
Upper(s) ==
    [k \in 1..Len(s) |-> IF s[k] \in HexChars THEN HexUpperDigits[HexDigitValue(s[k]) + 1]
                         ELSE s[k]]

RECURSIVE Repeat(_, _)
Repeat(x, n) == IF n <= 0 THEN <<>> ELSE <<x>> \o Repeat(x, n - 1)

RECURSIVE StripLeadingZeros(_)
StripLeadingZeros(b) ==
    IF b = <<>> THEN <<>>
    ELSE IF b[1] = 0 THEN StripLeadingZeros(Tail(b)) ELSE b

\* the four bits of a hex digit value, most-significant first
Nibble(v) == <<(v \div 8) % 2, (v \div 4) % 2, (v \div 2) % 2, v % 2>>

RECURSIVE NibblesOf(_)
NibblesOf(s) ==
    IF s = <<>> THEN <<>> ELSE Nibble(HexDigitValue(Head(s))) \o NibblesOf(Tail(s))

\* int(s, 16) raises ValueError on the empty string (s holds hex digits only)
IntBase16Raises(s) == s = <<>>

\* int(s, 16) for a non-empty string of hex digits: the number, leading zeros gone
IntBase16(s) == StripLeadingZeros(NibblesOf(s))

\* bin(n)[2:]
Bin(n) == IF n = <<>> THEN <<0>> ELSE n

\* str.zfill(width): pads on the left, never truncates
ZFill(s, width) == Repeat(0, width - Len(s)) \o s

\* f'{value:032b}'
Format032b(value) == ZFill(Bin(value), 32)

\* value & 0xFFFFFFFF
And32(value) ==
    IF Len(value) <= 32 THEN value
    ELSE StripLeadingZeros(SubSeq(value, Len(value) - 31, Len(value)))

\* how many items bring a length up to the next multiple of m
PadTo(len, m) == (m - (len % m)) % m

NibbleValue(b, k) == 8 * b[k] + 4 * b[k + 1] + 2 * b[k + 2] + b[k + 3]

\* the hex digits of a bit sequence whose length is a multiple of 4
HexOfBitsUpper(b) ==
    [k \in 1..(Len(b) \div 4) |-> HexUpperDigits[NibbleValue(b, 4 * k - 3) + 1]]

\* f'{value:08X}': upper-case hex, zero-padded to at least 8 digits
Format08X(value) ==
    LET bits   == Bin(value)
        padded == Repeat(0, PadTo(Len(bits), 4)) \o bits
        digits == HexOfBitsUpper(padded)
    IN  Repeat("0", 8 - Len(digits)) \o digits

\* bitarray.tobytes().hex().upper(): zero bits are appended up to a byte boundary
ToBytesHexUpper(b) == HexOfBitsUpper(b \o Repeat(0, PadTo(Len(b), 8)))

\* bitarray[i] raises IndexError outside -len..len-1
GetItemRaises(b, i) == i >= Len(b) \/ i < -Len(b)

\* bitarray[i], negative i counting from the end
GetItem(b, i) == IF i < 0 THEN b[Len(b) + i + 1] ELSE b[i + 1]

\* a slice bound as slice.indices() adjusts it: negative bounds count from the
\* end, and every bound is clamped into 0..len
SliceBound(i, len) ==
    LET j == IF i < 0 THEN i + len ELSE i
    IN  IF j < 0 THEN 0 ELSE IF j > len THEN len ELSE j

\* bitarray[start:end]: the bits at indices start..end-1
GetSlice(b, start, end) ==
    LET lo == SliceBound(start, Len(b))
        hi == SliceBound(end, Len(b))
    IN  IF lo >= hi THEN <<>> ELSE SubSeq(b, lo + 1, hi)

Reverse(s) == [k \in 1..Len(s) |-> s[Len(s) + 1 - k]]

\* mutant: the bitarray filled least-significant bit first
BuildBitsLsbFirst(hexstr) == Reverse(ZFill(Bin(IntBase16(hexstr)), 4 * Len(hexstr)))

\* mutant: the zfill forgotten, so leading zero digits give no bits
BuildBitsNoZFill(hexstr) == Bin(IntBase16(hexstr))

\* the bitarray FieldsView.parse builds from the hex text
BuildBits(hexstr) == ZFill(Bin(IntBase16(hexstr)), 4 * Len(hexstr))

(***************************************************************************)
(* FieldsView.parse.                                                       *)
(***************************************************************************)
EmptyRow == [set |-> FALSE, field |-> "", start |-> 0, end |-> 0, value |-> <<>>]

\* the Value column of one field
FieldRaises(b, info) == info.start = info.end /\ GetItemRaises(b, info.start)

FieldValue(b, info) ==
    IF info.start = info.end
    THEN <<HexUpperDigits[GetItem(b, info.start) + 1]>>
    ELSE <<"0", "x">> \o ToBytesHexUpper(GetSlice(b, info.start, info.end))

\* the loop over template.items(): it stops at the first field that raises
RECURSIVE ParseLoop(_, _, _, _)
ParseLoop(b, tmpl, row, acc) ==
    IF row > Len(tmpl) THEN [rows |-> acc, err |-> "none"]
    ELSE IF FieldRaises(b, tmpl[row]) THEN [rows |-> acc, err |-> "IndexError"]
    ELSE ParseLoop(b, tmpl, row + 1,
             [acc EXCEPT ![row] = [set |-> TRUE, field |-> tmpl[row].field,
                                   start |-> tmpl[row].start, end |-> tmpl[row].end,
                                   value |-> FieldValue(b, tmpl[row])]])

\* parse(hexstr, template): the rows and the bitarray it leaves, given the old bitarray
Parse(hexstr, tmpl, oldbits) ==
    IF IntBase16Raises(hexstr)
    THEN [rows |-> [k \in 1..Len(tmpl) |-> EmptyRow], bits |-> oldbits, err |-> "ValueError"]
    ELSE LET b == BuildBits(hexstr)
             r == ParseLoop(b, tmpl, 1, [k \in 1..Len(tmpl) |-> EmptyRow])
         IN  [rows |-> r.rows, bits |-> b, err |-> r.err]

(***************************************************************************)
(* The QLineEdit under InputEdit: le = [text, selStart, selEnd, cursor].   *)
(***************************************************************************)
Min(a, b) == IF a < b THEN a ELSE b

LineEdit == [text |-> text, selStart |-> selStart, selEnd |-> selEnd, cursor |-> cursor]

\* QLineEdit.setSelection(start, length), length > 0: an invalid start is refused
\* with a warning and changes nothing; the end is cut at the end of the text
QSetSelection(le, start, length) ==
    IF start < 0 \/ start > Len(le.text) THEN le
    ELSE [le EXCEPT !.selStart = start,
                    !.selEnd = Min(start + length, Len(le.text)),
                    !.cursor = Min(start + length, Len(le.text))]

\* QLineEdit.selectedText()
SelectedText(le) == SubSeq(le.text, le.selStart + 1, le.selEnd)

\* QLineEdit.setText(t): the selection goes, the cursor moves to the end
QSetText(le, t) == [text |-> t, selStart |-> 0, selEnd |-> 0, cursor |-> Len(t)]

\* QLineEdit.mousePressEvent at character position p: cursor there, nothing selected
QMousePress(le, p) == [le EXCEPT !.selStart = 0, !.selEnd = 0, !.cursor = p]

\* the selected text removed, cursor where it was
QRemoveSelected(le) ==
    IF le.selEnd > le.selStart
    THEN [text |-> SubSeq(le.text, 1, le.selStart)
                   \o SubSeq(le.text, le.selEnd + 1, Len(le.text)),
          selStart |-> 0, selEnd |-> 0, cursor |-> le.selStart]
    ELSE le

\* a key the validator accepts: it replaces the selection or goes in at the cursor
QInsert(le, c) ==
    LET d == QRemoveSelected(le)
    IN  [text |-> SubSeq(d.text, 1, d.cursor) \o <<c>>
                  \o SubSeq(d.text, d.cursor + 1, Len(d.text)),
         selStart |-> 0, selEnd |-> 0, cursor |-> d.cursor + 1]

\* Backspace: deletes the selection, else the character before the cursor
QBackspace(le) ==
    IF le.selEnd > le.selStart THEN QRemoveSelected(le)
    ELSE IF le.cursor = 0 THEN le
    ELSE [text |-> SubSeq(le.text, 1, le.cursor - 1)
                   \o SubSeq(le.text, le.cursor + 1, Len(le.text)),
          selStart |-> 0, selEnd |-> 0, cursor |-> le.cursor - 1]

(***************************************************************************)
(* InputEdit.updateHexStr.                                                 *)
(***************************************************************************)
\* list[idx] = v raises IndexError outside -len..len-1
ListSetRaises(l, idx) == idx >= Len(l) \/ idx < -Len(l)

ListSet(l, idx, v) == [l EXCEPT ![IF idx < 0 THEN Len(l) + idx + 1 ELSE idx + 1] = v]

\* for i in range(i, 8): ltext[pos + i] = lvalue[i]
RECURSIVE CopyDigits(_, _, _, _)
CopyDigits(ltext, lvalue, pos, i) ==
    IF i >= 8 THEN [ltext |-> ltext, err |-> "none"]
    ELSE IF ListSetRaises(ltext, pos + i) THEN [ltext |-> ltext, err |-> "IndexError"]
    ELSE CopyDigits(ListSet(ltext, pos + i, lvalue[i + 1]), lvalue, pos, i + 1)

\* mutant: the word's position taken as dword << 2
UpdateHexStrHalfOffset(le, dw, value) ==
    LET lvalue == Format08X(And32(value))
        pos    == dw * 4
        r      == CopyDigits(le.text, lvalue, pos, 0)
    IN  IF r.err # "none" THEN [le |-> le, err |-> r.err]
        ELSE [le |-> QSetSelection(QSetText(le, r.ltext), pos, 8), err |-> "none"]

\* updateHexStr(dword, value): the line edit afterwards, and the exception if any
UpdateHexStr(le, dw, value) ==
    LET lvalue == Format08X(And32(value))
        pos    == dw * 8
        r      == CopyDigits(le.text, lvalue, pos, 0)
    IN  IF r.err # "none" THEN [le |-> le, err |-> r.err]
        ELSE [le |-> QSetSelection(QSetText(le, r.ltext), pos, 8), err |-> "none"]

(***************************************************************************)
(* Reg32View: rv = [dword, reg32bits, bitviews].                           *)
(***************************************************************************)
Reg32 == [dword |-> dword, reg32bits |-> reg32bits, bitviews |-> bitviews]

\* the int 0xFFFFFFFF
AllOnes32 == Repeat(1, 32)

\* mutant: the bit buttons filled in array order, without the inversion
SetReg32ValueNoInversion(rv, value) ==
    LET bits == Format032b(value)
    IN  [rv EXCEPT !.reg32bits = bits,
                   !.bitviews = [bit_index \in 0..31 |-> bits[bit_index + 1]]]

\* setReg32Value(value)
SetReg32Value(rv, value) ==
    LET bits == Format032b(value)
    IN  [rv EXCEPT !.reg32bits = bits,
                   !.bitviews = [bit_index \in 0..31 |-> bits[(31 - bit_index) + 1]]]

\* getReg32HexStr()
GetReg32HexStr(rv) == ToBytesHexUpper(rv.reg32bits)

\* getReg32Value()
GetReg32Value(rv) == IntBase16(GetReg32HexStr(rv))

\* update(dword, hexstr)
Update(rv, dw, hexstr) ==
    IF rv.dword = dw THEN [rv |-> rv, err |-> "none"]
    ELSE IF IntBase16Raises(hexstr)
         THEN [rv |-> [rv EXCEPT !.dword = dw], err |-> "ValueError"]
         ELSE [rv |-> SetReg32Value([rv EXCEPT !.dword = dw], IntBase16(hexstr)),
               err |-> "none"]

\* mutant: the bit stored at array index bit_index, without the inversion
FlipBitNoInversion(rv, bit_index) ==
    LET v == 1 - rv.bitviews[bit_index]
    IN  [rv EXCEPT !.bitviews[bit_index] = v, !.reg32bits[bit_index + 1] = v]

\* BitView.onBitClicked of the button with this index, then onReg32BitChanged
FlipBit(rv, bit_index) ==
    LET v == 1 - rv.bitviews[bit_index]
    IN  [rv EXCEPT !.bitviews[bit_index] = v, !.reg32bits[(31 - bit_index) + 1] = v]

(***************************************************************************)
(* AnalyserUi: start-up and the event handlers.                            *)
(***************************************************************************)
\* self.hexstr
HexStr ==
    <<"A", "B", "C", "D", "E", "F", "0", "1", "2", "3", "4", "5", "6", "7", "8", "9",
      "A", "B", "C", "D", "E", "F", "0", "1", "2", "3", "4", "5", "6", "7", "8", "9">>

Field(name, default, start, end) ==
    [field |-> name, default |-> default, start |-> start, end |-> end]

\* field lists that template.ini may give for 'IPCT_RESULT' (the file is an input)
UiTemplates ==
    { <<Field("a", 0, 0, 0), Field("x", 0, 8, 10), Field("c", 2048, 16, 31),
        Field("d", 1, 40, 40), Field("e", 0, 96, 127)>>,
      <<Field("p", 0, 31, 31), Field("q", 0, 32, 63), Field("r", 0, 100, 140)>> }

\* the bit buttons clicked: both ends of the word and of its low byte
BitInputs == {0, 3, 4, 15, 31}

\* the keys typed into the line edit
TypedChars == {"0", "f"}

NoOp == [op |-> "init", arg |-> 0]

NoSignal == [name |-> "none", dword |-> 0, arg |-> <<>>]

\* the arguments of the signals clicked(int, str) and reg32ValueChanged(int, int)
Signal(name, dw, arg) == [name |-> name, dword |-> dw, arg |-> arg]

\* the state AnalyserUi.__init__ leaves when it does not raise
Init ==
    /\ text = HexStr
    /\ selStart = 0 /\ selEnd = 8 /\ cursor = 8
    /\ dword = 0
    /\ reg32bits = Repeat(0, 32)
    /\ bitviews = [bit_index \in 0..31 |-> 0]
    /\ template \in UiTemplates
    /\ Parse(HexStr, template, <<>>).err = "none"
    /\ rows = Parse(HexStr, template, <<>>).rows
    /\ fvbits = Parse(HexStr, template, <<>>).bits
    /\ hexout = <<>>
    /\ pc = "running"
    /\ err = "none"
    /\ lastOp = NoOp
    /\ prevText = HexStr
    /\ steps = 0
    /\ signal = NoSignal
    /\ fnIn = <<>>
    /\ fnOut = <<>>

\* what a handler leaves: the widgets' state, and the program ended if it raised
Commit(le, rv, e, op, sig) ==
    /\ text' = le.text
    /\ selStart' = le.selStart /\ selEnd' = le.selEnd /\ cursor' = le.cursor
    /\ dword' = rv.dword /\ reg32bits' = rv.reg32bits /\ bitviews' = rv.bitviews
    /\ err' = e
    /\ pc' = IF e = "none" THEN "running" ELSE "aborted"
    /\ lastOp' = op
    /\ prevText' = text
    /\ steps' = steps + 1
    /\ signal' = sig
    /\ UNCHANGED <<template, rows, fvbits, hexout, fnIn, fnOut>>

Enabled == pc = "running" /\ steps < MaxSteps

\* mutant: the end-of-text position is not stepped back
ClickedPosNoStepBack(p, len) == p

\* pos = self.cursorPosition(); if pos == len(self.text()): pos -= 1
ClickedPos(p, len) == IF p = len THEN p - 1 ELSE p

\* InputEdit.mousePressEvent, the click landing on character position p,
\* and Reg32View.update through the clicked signal
MousePressEvent ==
    \E p \in 0..Len(text) :
        LET le1 == QMousePress(LineEdit, p)
            pos == ClickedPos(p, Len(text))
            le2 == QSetSelection(le1, (pos \div 8) * 8, 8)
            u   == Update(Reg32, pos \div 8, SelectedText(le2))
        IN  /\ Enabled
            /\ Commit(le2, u.rv, u.err, [op |-> "press", arg |-> p],
                      Signal("clicked", pos \div 8, SelectedText(le2)))

\* a word value change: sendReg32ValueChanged, and InputEdit.updateHexStr
\* through the reg32ValueChanged signal
SendReg32ValueChanged(rv, op) ==
    LET h == UpdateHexStr(LineEdit, rv.dword, GetReg32Value(rv))
    IN  Commit(h.le, rv, h.err, op,
               Signal("reg32ValueChanged", rv.dword, GetReg32Value(rv)))

\* a click on the bit button with this index: BitView.onBitClicked,
\* Reg32View.onReg32BitChanged
OnBitClicked ==
    \E bit_index \in BitInputs :
        /\ Enabled
        /\ SendReg32ValueChanged(FlipBit(Reg32, bit_index),
                                 [op |-> "bit", arg |-> bit_index])

OnReg32SetAll ==
    /\ Enabled
    /\ SendReg32ValueChanged(SetReg32Value(Reg32, AllOnes32), [op |-> "setall", arg |-> 0])

OnReg32ClearAll ==
    /\ Enabled
    /\ SendReg32ValueChanged(SetReg32Value(Reg32, <<>>), [op |-> "clearall", arg |-> 0])

\* a click on a row of the field table: FieldsView.onFieldClicked,
\* InputEdit.setDwordSelection, Reg32View.update
OnFieldClicked ==
    \E row \in 1..Len(rows) :
        LET dw  == rows[row].start \div 32
            le1 == QSetSelection(LineEdit, dw * 8, 8)
            u   == Update(Reg32, dw, SelectedText(le1))
        IN  /\ Enabled
            /\ rows[row].set
            /\ Commit(le1, u.rv, u.err, [op |-> "field", arg |-> row],
                      Signal("clicked", dw, SelectedText(le1)))

\* a hex digit typed into the line edit: nothing is connected to the edit
KeyPress ==
    \E c \in TypedChars :
        /\ Enabled
        /\ Len(QInsert(LineEdit, c).text) <= MaxTextLen
        /\ Commit(QInsert(LineEdit, c), Reg32, "none", [op |-> "key", arg |-> 0], NoSignal)

Backspace ==
    /\ Enabled
    /\ Commit(QBackspace(LineEdit), Reg32, "none", [op |-> "backspace", arg |-> 0],
              NoSignal)

Next ==
    \/ MousePressEvent
    \/ OnBitClicked
    \/ OnReg32SetAll
    \/ OnReg32ClearAll
    \/ OnFieldClicked
    \/ KeyPress
    \/ Backspace

Spec == Init /\ [][Next]_vars

(***************************************************************************)
(* FieldsView.parse and the hex serialisation as functions of their        *)
(* inputs: a hex text and a field list are drawn, parse is applied to      *)
(* them, and the bitarray it built is serialised back.                     *)
(***************************************************************************)
\* the digits the drawn hex texts are made of
DecodeChars == {"0", "1", "7", "8", "F", "a"}

RECURSIVE StringsUpTo(_, _)
StringsUpTo(chars, n) ==
    IF n = 0 THEN {<<>>}
    ELSE LET shorter == StringsUpTo(chars, n - 1)
         IN  shorter \cup {Append(t, c) : t \in {u \in shorter : Len(u) = n - 1}, c \in chars}

\* the hex texts of the spec's decode scenarios
ScenarioHex ==
    { <<"0", "0", "0", "0", "0", "7", "0", "0">>,
      <<"0", "0", "0", "0", "0", "0", "0", "1">> }

DecodeHex == StringsUpTo(DecodeChars, MaxHexLen) \cup ScenarioHex

\* one field, as ParseConfigValue returns it (start <= end), alone or
\* followed by a single-bit field
DecodeFields ==
    {Field("x", 0, se[1], se[2]) :
        se \in {p \in (0..MaxOffset) \X (0..MaxOffset) : p[1] <= p[2]}}
    \cup {Field("x", 0, 8, 10), Field("x", 0, 16, 31), Field("x", 0, 31, 40),
          Field("x", 0, 40, 40)}

DecodeTemplates ==
    {<<f>> : f \in DecodeFields} \cup {<<f, Field("z", 0, 0, 0)>> : f \in DecodeFields}

InitDecode ==
    /\ text \in DecodeHex
    /\ template \in DecodeTemplates
    /\ selStart = 0 /\ selEnd = 0 /\ cursor = Len(text)
    /\ dword = 0
    /\ reg32bits = Repeat(0, 32)
    /\ bitviews = [bit_index \in 0..31 |-> 0]
    /\ rows = <<>>
    /\ fvbits = <<>>
    /\ hexout = <<>>
    /\ pc = "input"
    /\ err = "none"
    /\ lastOp = NoOp
    /\ prevText = text
    /\ steps = 0
    /\ signal = NoSignal
    /\ fnIn = <<>>
    /\ fnOut = <<>>

\* fieldsview.parse(text, template)
DoParse ==
    /\ pc = "input"
    /\ LET r == Parse(text, template, fvbits)
       IN  /\ rows' = r.rows
           /\ fvbits' = r.bits
           /\ err' = r.err
           /\ pc' = IF r.err = "none" THEN "parsed" ELSE "raised"
    /\ lastOp' = [op |-> "parse", arg |-> 0]
    /\ steps' = steps + 1
    /\ UNCHANGED <<text, selStart, selEnd, cursor, dword, reg32bits, bitviews,
                   template, hexout, prevText, signal, fnIn, fnOut>>

\* bitarray.tobytes().hex().upper() of the bitarray parse built
Serialise ==
    /\ pc = "parsed"
    /\ hexout' = ToBytesHexUpper(fvbits)
    /\ pc' = "serialised"
    /\ lastOp' = [op |-> "tohex", arg |-> 0]
    /\ steps' = steps + 1
    /\ UNCHANGED <<text, selStart, selEnd, cursor, dword, reg32bits, bitviews,
                   template, rows, fvbits, err, prevText, signal, fnIn, fnOut>>

NextDecode == DoParse \/ Serialise

SpecDecode == InitDecode /\ [][NextDecode]_vars

(***************************************************************************)
(* Str2Int, ParseConfigValue and ReadTemplate.  Their numbers are small    *)
(* (offsets and defaults of a template), so they are integers here.        *)
(***************************************************************************)
StartsWith(s, prefix) == Len(s) >= Len(prefix) /\ SubSeq(s, 1, Len(prefix)) = prefix

\* the value of one digit character, 99 for a character that is no digit
DigitValue(c) == IF c \in HexChars THEN HexDigitValue(c) ELSE 99

\* the digits int(s, base) reads: the base's own prefix (0x, 0o) may lead them
IntBody(s, base) ==
    IF base = 16 /\ (StartsWith(s, <<"0", "x">>) \/ StartsWith(s, <<"0", "X">>))
    THEN SubSeq(s, 3, Len(s))
    ELSE IF base = 8 /\ (StartsWith(s, <<"0", "o">>) \/ StartsWith(s, <<"0", "O">>))
    THEN SubSeq(s, 3, Len(s))
    ELSE s

\* int(s, base) raises ValueError unless it is left with one or more digits of the base
IntRaises(s, base) ==
    \/ IntBody(s, base) = <<>>
    \/ \E k \in 1..Len(IntBody(s, base)) : DigitValue(IntBody(s, base)[k]) >= base

RECURSIVE DigitsValue(_, _, _)
DigitsValue(digits, base, acc) ==
    IF digits = <<>> THEN acc
    ELSE DigitsValue(Tail(digits), base, acc * base + DigitValue(Head(digits)))

\* int(s, base) when it does not raise
IntValue(s, base) == DigitsValue(IntBody(s, base), base, 0)

\* the base Str2Int reads a non-empty literal in
Str2IntBase(s) ==
    IF StartsWith(s, <<"0", "x">>) THEN 16 ELSE IF StartsWith(s, <<"0">>) THEN 8 ELSE 10

\* mutant: a leading 0 is not taken for octal
Str2IntNoOctal(s) ==
    IF s = <<>> THEN [raises |-> FALSE, value |-> 0]
    ELSE LET base == IF StartsWith(s, <<"0", "x">>) THEN 16 ELSE 10
         IN  IF IntRaises(s, base) THEN [raises |-> TRUE, value |-> 0]
             ELSE [raises |-> FALSE, value |-> IntValue(s, base)]

\* Str2Int(s): the value, or raises (the ValueError of int())
Str2Int(s) ==
    IF s = <<>> THEN [raises |-> FALSE, value |-> 0]
    ELSE IF IntRaises(s, Str2IntBase(s)) THEN [raises |-> TRUE, value |-> 0]
    ELSE [raises |-> FALSE, value |-> IntValue(s, Str2IntBase(s))]

NotSpace(c) == c # " "

\* re.sub(r'\s+', '', cfg_value)
RemoveWhitespace(s) == SelectSeq(s, NotSpace)

\* str.split(sep): the segments between the separators, always at least one
RECURSIVE SplitFrom(_, _, _, _)
SplitFrom(s, sep, cur, out) ==
    IF s = <<>> THEN Append(out, cur)
    ELSE IF Head(s) = sep THEN SplitFrom(Tail(s), sep, <<>>, Append(out, cur))
    ELSE SplitFrom(Tail(s), sep, Append(cur, Head(s)), out)

Split(s, sep) == SplitFrom(s, sep, <<>>, <<>>)

CfgRaised == [raises |-> TRUE, default |-> 0, start |-> 0, end |-> 0]

\* mutant: the offsets are returned in textual order
OrderOffsetsNoSwap(default, start, end) ==
    [raises |-> FALSE, default |-> default, start |-> start, end |-> end]

\* the tuple ParseConfigValue returns once the three literals are read
OrderOffsets(default, start, end) ==
    IF start > end
    THEN [raises |-> FALSE, default |-> default, start |-> end, end |-> start]
    ELSE [raises |-> FALSE, default |-> default, start |-> start, end |-> end]

\* what ParseConfigValue does with the text once the whitespace is out
ParseCleaned(cleaned) ==
    LET ss      == Split(cleaned, "=")
        dflt    == IF Len(ss) > 1 THEN Str2Int(ss[2]) ELSE [raises |-> FALSE, value |-> 0]
        offsets == Split(ss[1], ":")
        start   == Str2Int(offsets[1])
        end     == IF Len(offsets) > 1 THEN Str2Int(offsets[2]) ELSE start
    IN  IF dflt.raises \/ start.raises \/ end.raises THEN CfgRaised
        ELSE OrderOffsets(dflt.value, start.value, end.value)

\* mutant: the whitespace is left in
ParseConfigValueKeepsWhitespace(cfg_value) == ParseCleaned(cfg_value)

\* ParseConfigValue(cfg_value): (default, start, end), or raises
ParseConfigValue(cfg_value) == ParseCleaned(RemoveWhitespace(cfg_value))

\* for field, value in cfg.items(section): fields[field] = ParseConfigValue(value)
RECURSIVE ReadFields(_, _, _)
ReadFields(items, k, fields) ==
    IF k > Len(items) THEN [raises |-> FALSE, fields |-> fields]
    ELSE LET v == ParseConfigValue(items[k].value)
         IN  IF v.raises THEN [raises |-> TRUE, fields |-> fields]
             ELSE ReadFields(items, k + 1,
                      Append(fields, Field(items[k].field, v.default, v.start, v.end)))

\* for section in cfg.sections(): templates[section] = fields
RECURSIVE ReadSections(_, _, _)
ReadSections(doc, k, templates) ==
    IF k > Len(doc) THEN [raises |-> FALSE, templates |-> templates]
    ELSE LET f == ReadFields(doc[k].items, 1, <<>>)
         IN  IF f.raises THEN [raises |-> TRUE, templates |-> <<>>]
             ELSE ReadSections(doc, k + 1,
                      Append(templates, [section |-> doc[k].section, fields |-> f.fields]))

\* ReadTemplate(file): the sections in document order, each with its fields in
\* document order; an exception of ParseConfigValue leaves it and nothing is returned
ReadTemplate(doc) == ReadSections(doc, 1, <<>>)

(***************************************************************************)
(* The functions applied to drawn arguments: Str2Int and ParseConfigValue  *)
(* to a text, ReadTemplate to a document, setReg32Value and getReg32Value  *)
(* to a number.                                                            *)
(***************************************************************************)
\* the characters the drawn texts are made of
CfgChars == {"0", "1", "7", "8", "x", ":", "=", " "}

\* the texts of the docstring of ParseConfigValue and of the spec's examples
ScenarioCfg ==
    { <<"1", "0", ":", "8">>,
      <<"8", ":", "1", "0">>,
      <<"8", ":", "1", "0", "=", "7">>,
      <<"1", "0", ":", "8", "=", "7">>,
      <<"1", "6", ":", "3", "1", "=", "0", "x", "0", "8", "0", "0">>,
      <<"3", "1", ":", "1", "6", "=", "0", "x", "0", "8", "0", "0">>,
      <<"1">>,
      <<" ", "8", " ", ":", " ", "1", "0", " ", " ", "=", " ", " ", "7">>,
      <<"0", "1", "9">>,
      <<"0", "x", "1", "F">>,
      <<"0", "x", "0", "8", "0", "0">>,
      <<"0", "0", "1", "7">>,
      <<"1", ":", "x">> }

CfgTexts == StringsUpTo(CfgChars, MaxCfgLen) \cup ScenarioCfg

Item(field, value) == [field |-> field, value |-> value]

\* sections of a template.ini: two well-formed, one empty, one with an entry
\* ParseConfigValue cannot read
IniSections ==
    { [section |-> "IPCT_RESULT",
       items |-> <<Item("a", <<"1">>), Item("b", <<"1", "0", ":", "8", "=", "7">>)>>],
      [section |-> "OTHER", items |-> <<Item("c", <<"1", "6", ":", "3", "1", "=", "0", "x", "0", "8", "0", "0">>)>>],
      [section |-> "EMPTY", items |-> <<>>],
      [section |-> "BROKEN", items |-> <<Item("a", <<"1">>), Item("z", <<"1", ":", "x">>)>>] }

\* the documents: up to MaxSections sections, no section twice
IniDocs ==
    {d \in UNION {[1..n -> IniSections] : n \in 0..MaxSections} :
        \A i, j \in 1..Len(d) : i # j => d[i].section # d[j].section}

\* the numbers: the short numerals, and the ones around 2^31 and 2^32
RegValues ==
    {StripLeadingZeros(b) : b \in StringsUpTo({0, 1}, MaxValueBits)}
    \cup {<<1>> \o Repeat(0, 31), Repeat(1, 32), <<1>> \o Repeat(0, 32),
          <<1>> \o Repeat(0, 31) \o <<1>>, <<1, 0, 1>> \o Repeat(1, 31)}

InitFunctions ==
    /\ \/ pc = "str2int" /\ fnIn \in CfgTexts
       \/ pc = "config" /\ fnIn \in CfgTexts
       \/ pc = "ini" /\ fnIn \in IniDocs
       \/ pc = "setvalue" /\ fnIn \in RegValues
    /\ fnOut = <<>>
    /\ text = <<>>
    /\ selStart = 0 /\ selEnd = 0 /\ cursor = 0
    /\ dword = 0
    /\ reg32bits = Repeat(0, 32)
    /\ bitviews = [bit_index \in 0..31 |-> 0]
    /\ template = <<>>
    /\ rows = <<>>
    /\ fvbits = <<>>
    /\ hexout = <<>>
    /\ err = "none"
    /\ lastOp = NoOp
    /\ prevText = <<>>
    /\ steps = 0
    /\ signal = NoSignal

\* the function has returned r, or has raised
Returned(r, stage) ==
    /\ fnOut' = r
    /\ err' = IF r.raises THEN "ValueError" ELSE "none"
    /\ pc' = stage
    /\ steps' = steps + 1
    /\ UNCHANGED <<text, selStart, selEnd, cursor, dword, reg32bits, bitviews, template,
                   rows, fvbits, hexout, lastOp, prevText, signal, fnIn>>

DoStr2Int == pc = "str2int" /\ Returned(Str2Int(fnIn), "str2int_done")

DoParseConfigValue == pc = "config" /\ Returned(ParseConfigValue(fnIn), "config_done")

DoReadTemplate == pc = "ini" /\ Returned(ReadTemplate(fnIn), "ini_done")

\* reg32view.setReg32Value(fnIn)
DoSetReg32Value ==
    /\ pc = "setvalue"
    /\ reg32bits' = SetReg32Value(Reg32, fnIn).reg32bits
    /\ bitviews' = SetReg32Value(Reg32, fnIn).bitviews
    /\ pc' = "setvalue_done"
    /\ steps' = steps + 1
    /\ UNCHANGED <<text, selStart, selEnd, cursor, dword, template, rows, fvbits, hexout,
                   err, lastOp, prevText, signal, fnIn, fnOut>>

\* reg32view.getReg32Value()
DoGetReg32Value ==
    /\ pc = "setvalue_done"
    /\ fnOut' = GetReg32Value(Reg32)
    /\ pc' = "getvalue_done"
    /\ steps' = steps + 1
    /\ UNCHANGED <<text, selStart, selEnd, cursor, dword, reg32bits, bitviews, template,
                   rows, fvbits, hexout, err, lastOp, prevText, signal, fnIn>>

NextFunctions ==
    \/ DoStr2Int
    \/ DoParseConfigValue
    \/ DoReadTemplate
    \/ DoSetReg32Value
    \/ DoGetReg32Value

SpecFunctions == InitFunctions /\ [][NextFunctions]_vars

(***************************************************************************)
(* The claims.                                                             *)
(***************************************************************************)
\* the buffer bits of a hex text, most-significant bit of the first digit first
BufferBits(t) == NibblesOf(t)

Zeros8 == <<"0", "0", "0", "0", "0", "0", "0", "0">>
Fs8 == <<"F", "F", "F", "F", "F", "F", "F", "F">>

\* C1: in every reachable state the 32 bits of the word view equal the 8 hex
\* digits of the buffer text at [8*dword, 8*dword+8), the start-up state included.
C1_WordViewInSync ==
    pc = "running" =>
        /\ dword >= 0
        /\ 8 * dword + 8 <= Len(text)
        /\ reg32bits = BufferBits(SubSeq(text, 8 * dword + 1, 8 * dword + 8))

\* C2: after a handler that changed the buffer (a bit toggle, Set All, Clear All,
\* an edit of the hex text) has returned, the values in the field table are the
\* decode of the current text against the template.
C2_RedecodedAfterMutation ==
    (pc = "running" /\ lastOp.op \in {"bit", "setall", "clearall", "key", "backspace"}) =>
        /\ Len(rows) = Len(template)
        /\ \A k \in 1..Len(rows) :
               rows[k].value = Parse(text, template, fvbits).rows[k].value

\* C3: a toggle of view bit i of the word view at word index w flips the buffer
\* bit at MSB-first index 32*w + (31 - i) and leaves every other buffer bit unchanged.
C3_ToggleFlipsOneBufferBit ==
    (pc = "running" /\ lastOp.op = "bit") =>
        LET old == BufferBits(prevText)
            new == BufferBits(text)
            j   == 32 * dword + (31 - lastOp.arg)
        IN  /\ Len(new) = Len(old)
            /\ j < Len(old)
            /\ \A k \in 0..(Len(old) - 1) :
                   new[k + 1] = IF k = j THEN 1 - old[k + 1] ELSE old[k + 1]

\* the step is a click on bit button 31 of word 0 while all 32 bits are zero
ToggleBit31OfZeroWord ==
    /\ dword = 0
    /\ reg32bits = Repeat(0, 32)
    /\ lastOp'.op = "bit" /\ lastOp'.arg = 31

\* C4, as stated: with word index 0 and all 32 bits zero, setting view bit 31
\* and serialising the word yields "00000001".
C4_Bit31IsLeastSignificant ==
    [][ToggleBit31OfZeroWord =>
            ToBytesHexUpper(reg32bits') = <<"0", "0", "0", "0", "0", "0", "0", "1">>]_vars

\* C4, amended: with word index 0 and all 32 bits zero, setting view bit 31
\* and serialising the word yields "80000000": view bit 31 is the
\* most-significant bit of the word.
C4_Bit31IsMostSignificant ==
    [][ToggleBit31OfZeroWord =>
            ToBytesHexUpper(reg32bits') = <<"8", "0", "0", "0", "0", "0", "0", "0">>]_vars

\* C4 witness: bit 31 was toggled on word 0 of a buffer whose word 0 was
\* "00000000", and word and buffer now read "80000000"
C4_Witness ==
    /\ pc = "running" /\ lastOp = [op |-> "bit", arg |-> 31] /\ dword = 0
    /\ SubSeq(prevText, 1, 8) = Zeros8
    /\ GetReg32HexStr(Reg32) = <<"8", "0", "0", "0", "0", "0", "0", "0">>
    /\ SubSeq(text, 1, 8) = <<"8", "0", "0", "0", "0", "0", "0", "0">>

Decoded == pc \in {"parsed", "serialised"}

\* C5: for a field with start < end < N the raw value is "0x" and the upper-case
\* hex of the bytes built from the buffer bits start..end inclusive.
C5_MultiBitFieldIsInclusive ==
    Decoded =>
        \A k \in 1..Len(template) :
            (0 <= template[k].start /\ template[k].start < template[k].end
                /\ template[k].end < 4 * Len(text)) =>
                rows[k].value = <<"0", "x">> \o ToBytesHexUpper(
                    SubSeq(BufferBits(text), template[k].start + 1, template[k].end + 1))

\* the decode scenario: field x = (0, 8, 10) against the hex text "00000700"
DecodeScenario ==
    /\ Decoded
    /\ text = <<"0", "0", "0", "0", "0", "7", "0", "0">>
    /\ template[1] = Field("x", 0, 8, 10)

\* C6, as stated: the scenario yields the raw value "0x07" for x.
C6_ScenarioYields07 == DecodeScenario => rows[1].value = <<"0", "x", "0", "7">>

\* C6, amended: the scenario yields the raw value "0x00" for x (buffer bits
\* 8..10, counted from the most-significant bit, are zero in "00000700").
C6_ScenarioYields00 == DecodeScenario => rows[1].value = <<"0", "x", "0", "0">>

\* C6 witness: the scenario has been decoded
C6_Witness == DecodeScenario /\ rows[1].set /\ rows[1].field = "x"

\* C7: decoding a field whose end is >= N raises an index error, for single-bit
\* and multi-bit fields alike, and gives the field no value.
C7_OutOfRangeFieldRaises ==
    (pc # "input" /\ text # <<>> /\ template[1].end >= 4 * Len(text)) =>
        /\ err = "IndexError"
        /\ ~rows[1].set

\* C8: for a field with start = end = s, 0 <= s < N, the raw value is "1" if
\* the buffer bit s is set and "0" if not, bit 0 being the most-significant bit
\* of the first hex digit (leading zero digits are zero bits).
C8_SingleBitField ==
    Decoded =>
        \A k \in 1..Len(template) :
            LET s == template[k].start
            IN  (s = template[k].end /\ 0 <= s /\ s < 4 * Len(text)) =>
                    /\ rows[k].set
                    /\ rows[k].value =
                           IF Nibble(HexDigitValue(text[(s \div 4) + 1]))[(s % 4) + 1] = 1
                           THEN <<"1">> ELSE <<"0">>

\* C8 witness: bit 5 of the text "07", behind a leading zero digit, decoded as "1"
C8_Witness ==
    /\ pc = "parsed" /\ text = <<"0", "7">>
    /\ template[1].start = 5 /\ template[1].end = 5
    /\ rows[1].value = <<"1">>

\* C9: from any reachable state Set All leaves the word serialising to
\* "FFFFFFFF", Clear All to "00000000", with all 32 displayed bits set (cleared)
\* and the buffer text digits [8w, 8w+8) equal to that hex string.
C9_SetAllClearAll ==
    lastOp.op \in {"setall", "clearall"} =>
        LET want == IF lastOp.op = "setall" THEN Fs8 ELSE Zeros8
            bit  == IF lastOp.op = "setall" THEN 1 ELSE 0
        IN  /\ GetReg32HexStr(Reg32) = want
            /\ \A bit_index \in 0..31 : bitviews[bit_index] = bit
            /\ dword >= 0 /\ 8 * dword + 8 <= Len(text)
            /\ SubSeq(text, 8 * dword + 1, 8 * dword + 8) = want

\* C10: for every even-length string h of hex digits, the empty one included,
\* the bit buffer built from h has 4*len(h) bits and serialises to uppercase(h).
C10_RoundTrip ==
    (pc # "input" /\ Len(text) % 2 = 0) =>
        /\ err # "ValueError"
        /\ Len(fvbits) = 4 * Len(text)
        /\ ToBytesHexUpper(fvbits) = Upper(text)
        /\ pc = "serialised" => hexout = Upper(text)


ConfigDone == pc = "config_done"

Triple(default, start, end) ==
    [raises |-> FALSE, default |-> default, start |-> start, end |-> end]

\* C11: every triple ParseConfigValue returns has start <= end; "10:8" and
\* "8:10" both give start 8, end 10, and the swap leaves the default alone.
C11_OffsetsAreOrdered ==
    ConfigDone =>
        /\ ~fnOut.raises => fnOut.start <= fnOut.end
        /\ fnIn \in {<<"1", "0", ":", "8">>, <<"8", ":", "1", "0">>} => fnOut = Triple(0, 8, 10)
        /\ fnIn \in {<<"1", "0", ":", "8", "=", "7">>, <<"8", ":", "1", "0", "=", "7">>} => fnOut = Triple(7, 8, 10)
        /\ fnIn \in {<<"3", "1", ":", "1", "6", "=", "0", "x", "0", "8", "0", "0">>, <<"1", "6", ":", "3", "1", "=", "0", "x", "0", "8", "0", "0">>}
               => fnOut = Triple(2048, 16, 31)

\* C11 witness: the inverted text "10:8=7" has been parsed to (7, 8, 10)
C11_Witness == ConfigDone /\ fnIn = <<"1", "0", ":", "8", "=", "7">> /\ fnOut = Triple(7, 8, 10)

Has(t, c) == \E k \in 1..Len(t) : t[k] = c

\* C12: ParseConfigValue ignores whitespace, takes the default after '=' (0
\* without '=') and start and end around ':' (end = start without ':'):
\* "8:10=7" gives (7, 8, 10), "16:31=0x0800" (2048, 16, 31), "1" (0, 1, 1).
C12_ParseConfigValue ==
    ConfigDone =>
        /\ fnIn \in {<<"8", ":", "1", "0", "=", "7">>, <<" ", "8", " ", ":", " ", "1", "0", " ", " ", "=", " ", " ", "7">>}
               => fnOut = Triple(7, 8, 10)
        /\ fnIn = <<"1", "6", ":", "3", "1", "=", "0", "x", "0", "8", "0", "0">> => fnOut = Triple(2048, 16, 31)
        /\ fnIn = <<"1">> => fnOut = Triple(0, 1, 1)
        /\ (~fnOut.raises /\ ~Has(fnIn, "=")) => fnOut.default = 0
        /\ (~fnOut.raises /\ ~Has(fnIn, ":")) => fnOut.start = fnOut.end
        /\ (~Has(fnIn, "=") /\ ~Has(fnIn, ":") /\ ~Has(fnIn, "x") /\ Has(fnIn, "1")
               /\ ~Has(fnIn, "0") /\ ~Has(fnIn, "7") /\ ~Has(fnIn, "8"))
               => ~fnOut.raises

\* C12 witness: the docstring's text with its blanks has been parsed to (7, 8, 10)
C12_Witness == ConfigDone /\ fnIn = <<" ", "8", " ", ":", " ", "1", "0", " ", " ", "=", " ", " ", "7">> /\ fnOut = Triple(7, 8, 10)

DecimalDigits == {"0", "1", "2", "3", "4", "5", "6", "7", "8", "9"}
OctalDigits == {"0", "1", "2", "3", "4", "5", "6", "7"}

AllIn(t, chars) == \A k \in 1..Len(t) : t[k] \in chars

IsHexLiteral(t) ==
    Len(t) > 2 /\ t[1] = "0" /\ t[2] = "x" /\ AllIn(SubSeq(t, 3, Len(t)), HexChars)

\* the literals the claim calls well-formed
WellFormedLiteral(t) == t = <<>> \/ AllIn(t, DecimalDigits) \/ IsHexLiteral(t)

HasLeadingZero(t) == Len(t) > 1 /\ t[1] = "0" /\ AllIn(t, DecimalDigits)

\* the number a digit string writes in a base, from its last digit up
RECURSIVE PositionalValue(_, _)
PositionalValue(t, base) ==
    IF t = <<>> THEN 0
    ELSE DigitValue(t[Len(t)]) + base * PositionalValue(SubSeq(t, 1, Len(t) - 1), base)

\* C13, as stated: Str2Int returns a value for every literal that is empty, a
\* string of decimal digits ("08" and "019" included) or "0x" and hex digits.
C13_WellFormedNeverRaises ==
    (pc = "str2int_done" /\ WellFormedLiteral(fnIn)) => ~fnOut.raises

\* C13, amended: Str2Int returns a value for every literal that is empty, a
\* string of decimal digits without a leading 0 or with octal digits only, or
\* "0x" and hex digits: 0 for the empty literal, the hexadecimal value after
\* "0x", the octal value after a leading 0, else the decimal value; a literal
\* with a leading 0 and a digit 8 or 9 raises.
C13_OctalLiterals ==
    (pc = "str2int_done" /\ WellFormedLiteral(fnIn)) =>
        IF fnIn = <<>> THEN ~fnOut.raises /\ fnOut.value = 0
        ELSE IF IsHexLiteral(fnIn)
        THEN ~fnOut.raises /\ fnOut.value = PositionalValue(SubSeq(fnIn, 3, Len(fnIn)), 16)
        ELSE IF HasLeadingZero(fnIn)
        THEN IF AllIn(fnIn, OctalDigits)
             THEN ~fnOut.raises /\ fnOut.value = PositionalValue(fnIn, 8)
             ELSE fnOut.raises
        ELSE ~fnOut.raises /\ fnOut.value = PositionalValue(fnIn, 10)

\* C13 witness: the literal "0017" has been read as octal 15
C13_Witness ==
    pc = "str2int_done" /\ fnIn = <<"0", "0", "1", "7">> /\ ~fnOut.raises /\ fnOut.value = 15

FieldClicked == lastOp.op = "field"

\* the digits of word w of a text, as many as the text has
WordDigits(t, w) ==
    IF w < 0 \/ 8 * w > Len(t) THEN <<>> ELSE SubSeq(t, 8 * w + 1, Min(8 * w + 8, Len(t)))

\* C14: a click on a field row with start bit s, 0 <= s < N, leaves the
\* selection on the digits [8w, 8w+8) for w = s div 32, and the word view at
\* word index w with its 32 bits equal to those digits.
C14_FieldClickSelectsWord ==
    (FieldClicked /\ 0 <= rows[lastOp.arg].start
        /\ rows[lastOp.arg].start < 4 * Len(text)) =>
        LET w == rows[lastOp.arg].start \div 32
        IN  /\ pc = "running"
            /\ selStart = 8 * w /\ selEnd = 8 * w + 8
            /\ dword = w
            /\ Len(WordDigits(text, w)) = 8
            /\ reg32bits = BufferBits(WordDigits(text, w))

\* C15, as stated: a click at position p, for every p in 0..len(text), selects
\* word p div 8 and notifies the word view with p div 8 and that word's digits.
C15_ClickSelectsWordOfPosition ==
    lastOp.op = "press" =>
        LET w == lastOp.arg \div 8
        IN  /\ selStart = 8 * w
            /\ signal = Signal("clicked", w, WordDigits(text, w))

\* C15, amended: a click at position p < len(text) selects word p div 8, a
\* click at the end of the text the word of the last character,
\* (len(text) - 1) div 8: clicked(w, selected text) is emitted and, in a text
\* that is not empty, the selection is [8w, min(8w + 8, len(text))).
C15_ClickSelectsWordOfCharacter ==
    lastOp.op = "press" =>
        LET w == IF lastOp.arg < Len(text) THEN lastOp.arg \div 8
                 ELSE (Len(text) - 1) \div 8
        IN  /\ signal.name = "clicked" /\ signal.dword = w
            /\ Len(text) > 0 =>
                   /\ selStart = 8 * w /\ selEnd = Min(8 * w + 8, Len(text))
                   /\ signal.arg = WordDigits(text, w)

\* C15 witness: a click at the end of the 32-digit text has selected word 3
C15_Witness ==
    /\ pc = "running" /\ lastOp.op = "press" /\ lastOp.arg = Len(text) /\ Len(text) = 32
    /\ selStart = 24 /\ selEnd = 32 /\ dword = 3
    /\ signal = Signal("clicked", 3, SubSeq(text, 25, 32))

WordEdited == lastOp.op \in {"bit", "setall", "clearall"}

\* C16: after a bit toggle, Set All or Clear All on a word index w within the
\* buffer the text has the length it had, every digit outside [8w, 8w+8) is
\* unchanged, and the digits inside are the 8-digit upper-case hex of the word.
C16_WordEditTouchesItsWord ==
    (WordEdited /\ 0 <= dword /\ 8 * dword + 8 <= Len(prevText)) =>
        /\ pc = "running"
        /\ Len(text) = Len(prevText)
        /\ \A k \in 1..Len(text) :
               IF 8 * dword < k /\ k <= 8 * dword + 8
               THEN text[k] = HexUpperDigits[NibbleValue(reg32bits, 4 * (k - 8 * dword) - 3) + 1]
               ELSE text[k] = prevText[k]

\* C16 witness: a bit was toggled on word 2 and the text changed
C16_Witness ==
    /\ pc = "running" /\ lastOp.op = "bit" /\ dword = 2
    /\ text # prevText /\ Len(text) = 32
    /\ SubSeq(text, 1, 16) = SubSeq(prevText, 1, 16)

\* C17: a document with one section holding an entry that cannot be parsed and
\* other well-formed sections loads: the result leaves out the broken section
\* and holds every well-formed one, fields in document order.
SectionIsWellFormed(sec) ==
    \A k \in 1..Len(sec.items) : ~ParseConfigValue(sec.items[k].value).raises

C17_BrokenSectionIsLeftOut ==
    (/\ pc = "ini_done"
     /\ \E k \in 1..Len(fnIn) : ~SectionIsWellFormed(fnIn[k])
     /\ \E k \in 1..Len(fnIn) : SectionIsWellFormed(fnIn[k])) =>
        LET good == SelectSeq(fnIn, SectionIsWellFormed)
        IN  /\ ~fnOut.raises
            /\ Len(fnOut.templates) = Len(good)
            /\ \A k \in 1..Len(good) :
                   /\ fnOut.templates[k].section = good[k].section
                   /\ Len(fnOut.templates[k].fields) = Len(good[k].items)
                   /\ \A i \in 1..Len(good[k].items) :
                          fnOut.templates[k].fields[i].field = good[k].items[i].field

\* C18: setReg32Value(v) leaves exactly 32 bits holding v mod 2^32, and
\* getReg32Value() then returns v mod 2^32.
C18_ValueIsMaskedTo32Bits ==
    pc \in {"setvalue_done", "getvalue_done"} =>
        /\ Len(reg32bits) = 32
        /\ reg32bits = Repeat(0, 32 - Len(And32(fnIn))) \o And32(fnIn)
        /\ pc = "getvalue_done" => fnOut = And32(fnIn)

\* C19: every bit button shows the bit the word stores under the inversion:
\* the button with index i shows reg32bits[31 - i], for every i in 0..31.
C19_ButtonsShowStoredBits ==
    /\ Len(reg32bits) = 32
    /\ \A i \in 0..31 : bitviews[i] = reg32bits[(31 - i) + 1]

\* C19 witness: after a switch to word 3 ("23456789") and a click on button 31,
\* button 31 and array index 0 are set, button 0 and array index 31 are set,
\* button 1 and array index 30 are clear
C19_Witness ==
    /\ pc = "running" /\ lastOp = [op |-> "bit", arg |-> 31] /\ dword = 3
    /\ bitviews[31] = 1 /\ reg32bits[1] = 1
    /\ bitviews[0] = 1 /\ reg32bits[32] = 1
    /\ bitviews[1] = 0 /\ reg32bits[31] = 0

====
